---- MODULE Spec2Model ----
(***************************************************************************)
(* LengthPrefixedJson (tokio-chat-common/src/codec.rs): a tokio_core Codec *)
(* whose wire format is a big-endian u16 payload length followed by the    *)
(* JSON payload.  The model keeps the two buffers the codec is called on   *)
(* (the EasyBuf that decode drains and the Vec<u8> that encode fills), the *)
(* result of the last call, and history variables recording the bytes that *)
(* arrived on and left the decode buffer.                                  *)
(*                                                                         *)
(* serde_json is an external collaborator.  Its serializer is modelled by  *)
(* the bytes it writes (never empty, never an invalid byte) or by a        *)
(* failure after a partial write; its deserializer by the set of byte      *)
(* sequences it rejects.                                                   *)
(***************************************************************************)
EXTENDS Integers, Sequences, FiniteSets, TLC

VARIABLES
    rbuf,      \* the EasyBuf decode is called on
    wbuf,      \* the Vec<u8> encode is called on
    res,       \* the last call: operation, kind of value returned, and the
               \* values of tries and partial before it
    pre,       \* the buffer of the last call as it was before the call
    arg,       \* encode: the serialized payload; receive: the chunk
    appended,  \* every byte delivered to the decode buffer so far, in order
    consumed,  \* every byte decode has drained so far, in order
    out,       \* what the decode calls that drained a frame returned, in
               \* order: Ok(Some) or Err, and the slice deserialized
    tries,     \* decode calls since the decode buffer last changed (saturating)
    partial,   \* a decode call found the frame now at the front incomplete
    run,       \* frames drained since the last delivery to the decode buffer
    fed        \* length of the decode buffer right after the last delivery

vars ==
    <<rbuf, wbuf, res, pre, arg, appended, consumed, out, tries, partial, run,
      fed>>

---------------------------------------------------------------------------
(* Bounds of the model. *)

\* Bytes the transport delivers to the decode buffer in small chunks.
MaxStream == 6
\* Longest chunk one read delivers.
MaxChunk == 2
\* Longest payload of the small messages handed to encode.
MaxPayloadLen == 2
\* Output-buffer length up to which a further encode is modelled.
MaxOut == 3
\* Saturation of the count of decode calls on an unchanged buffer.
MaxTries == 2

---------------------------------------------------------------------------
(* Program constants. *)

\* Number of values of a u16 (`buf.len() as u16`, read_u16/write_u16).
U16 == 65536
\* mem::size_of_val of a u16.
hdr_size == 2
\* A byte no JSON text contains (not valid UTF-8): serde_json rejects it.
InvalidByte == 255

---------------------------------------------------------------------------
(* Byte sequences. *)

\* Bytes the transport delivers in the small chunks.
NetBytes == {0, 1, 2, InvalidByte}

\* Bytes of the small serialized payloads.
TextBytes == {1, 2}

SeqsUpTo(S, n) == UNION {[1..k -> S] : k \in 0..n}

Drop(s, n) == SubSeq(s, n + 1, Len(s))

Take(s, n) == SubSeq(s, 1, n)

IsPrefix(p, s) == Len(p) <= Len(s) /\ Take(s, Len(p)) = p

\* A serialized payload of n bytes, all 'z'.
Fill(n) == [i \in 1..n |-> 122]

---------------------------------------------------------------------------
(* The external deserializer and serializer. *)

\* serde_json::from_slice: TRUE when the bytes deserialize.  The empty input
\* is rejected (EOF while parsing a value), as is any invalid byte.
from_slice(msg_buf) ==
    /\ Len(msg_buf) > 0
    /\ \A i \in 1..Len(msg_buf) : msg_buf[i] # InvalidByte

\* serde_json::to_writer(buf, &msg): appends the bytes it writes to buf.
to_writer(buf, msg) == buf \o msg.bytes

---------------------------------------------------------------------------
(* decode *)

\* Mutant of read_u16: the header read low byte first.
read_u16_le(slice) ==
    IF Len(slice) < 2 THEN -1 ELSE (slice[2] * 256 + slice[1]) % U16

\* ReadBytesExt::read_u16::<BigEndian> on a slice: -1 stands for Err
\* (fewer than two bytes), otherwise the value of the first two bytes.
read_u16(slice) ==
    IF Len(slice) < 2 THEN -1 ELSE (slice[1] * 256 + slice[2]) % U16

\* Mutant of drain_to: everything buffered is drained with the frame.
drain_to_end(buf, at) == [head |-> Take(buf, at), tail |-> <<>>]

\* Mutant of drain_to: the split is one byte early for the buffer left.
drain_to_dup(buf, at) ==
    [head |-> Take(buf, at),
     tail |-> IF at > 0 THEN Drop(buf, at - 1) ELSE buf]

\* EasyBuf::drain_to(at): the first `at` bytes, and the buffer left.
drain_to(buf, at) == [head |-> Take(buf, at), tail |-> Drop(buf, at)]

\* Mutant of Incomplete: reading the header has advanced the buffer.
Incomplete_advanced(buf) ==
    [kind |-> "incomplete",
     buf |-> IF Len(buf) >= hdr_size THEN Drop(buf, hdr_size) ELSE buf,
     drained |-> <<>>, msg_buf |-> <<>>]

\* Mutant of Incomplete: the shortage is passed on as an error.
Incomplete_as_error(buf) ==
    [kind |-> "error", buf |-> buf, drained |-> <<>>, msg_buf |-> <<>>]

\* decode's `return Ok(None)`: nothing drained, the buffer as it was.
Incomplete(buf) ==
    [kind |-> "incomplete", buf |-> buf, drained |-> <<>>, msg_buf |-> <<>>]

\* Mutant of frame_size: the sum kept in the header's own 16 bits.
frame_size_u16(hdr) == (hdr + hdr_size) % U16

\* Mutant of frame_size: the header's own bytes left out of the frame.
frame_size_no_hdr(hdr) == hdr

\* `msg_size as usize + hdr_size`: the bytes of the whole frame.  A usize
\* holds every such sum, so the addition is exact.
frame_size(hdr) == hdr + hdr_size

\* Mutant of decode: a frame is drained only once a byte follows it.
decode_off_by_one(buf) ==
    LET hdr == read_u16(buf) IN
    IF hdr = -1 THEN Incomplete(buf)
    ELSE
      LET msg_size == frame_size(hdr) IN
      IF Len(buf) <= msg_size THEN Incomplete(buf)
      ELSE
        LET d       == drain_to(buf, msg_size)
            msg_buf == Drop(d.head, hdr_size)
        IN  [kind |-> IF from_slice(msg_buf) THEN "payload" ELSE "error",
             buf |-> d.tail, drained |-> d.head, msg_buf |-> msg_buf]

\* Mutant of decode: the frame is deserialized before it is drained, and a
\* rejected frame stays in the buffer.
decode_error_keeps(buf) ==
    LET hdr == read_u16(buf) IN
    IF hdr = -1 THEN Incomplete(buf)
    ELSE
      LET msg_size == frame_size(hdr) IN
      IF Len(buf) < msg_size THEN Incomplete(buf)
      ELSE
        LET d       == drain_to(buf, msg_size)
            msg_buf == Drop(d.head, hdr_size)
        IN  IF from_slice(msg_buf)
            THEN [kind |-> "payload", buf |-> d.tail,
                  drained |-> d.head, msg_buf |-> msg_buf]
            ELSE [kind |-> "error", buf |-> buf,
                  drained |-> <<>>, msg_buf |-> msg_buf]

\* Mutant of decode: a header of zero is taken for "nothing to read yet".
decode_zero_incomplete(buf) ==
    LET hdr == read_u16(buf) IN
    IF hdr = -1 \/ hdr = 0 THEN Incomplete(buf)
    ELSE
      LET msg_size == frame_size(hdr) IN
      IF Len(buf) < msg_size THEN Incomplete(buf)
      ELSE
        LET d       == drain_to(buf, msg_size)
            msg_buf == Drop(d.head, hdr_size)
        IN  [kind |-> IF from_slice(msg_buf) THEN "payload" ELSE "error",
             buf |-> d.tail, drained |-> d.head, msg_buf |-> msg_buf]

\* LengthPrefixedJson::decode as a function of the buffer: the kind of
\* value returned (Ok(None): "incomplete", Ok(Some(msg)): "payload",
\* Err(InvalidData): "error"), the buffer afterwards (buf), the bytes
\* drained (drained) and the slice handed to the deserializer (msg_buf).
\* The message of a "payload" result is the deserialization of msg_buf and
\* is identified with those bytes.
decode(buf) ==
    LET hdr == read_u16(buf) IN
    IF hdr = -1 THEN Incomplete(buf)
    ELSE
      LET msg_size == frame_size(hdr) IN
      IF Len(buf) < msg_size THEN Incomplete(buf)
      ELSE
        LET d       == drain_to(buf, msg_size)
            msg_buf == Drop(d.head, hdr_size)
        IN  IF from_slice(msg_buf)
            THEN [kind |-> "payload", buf |-> d.tail,
                  drained |-> d.head, msg_buf |-> msg_buf]
            ELSE [kind |-> "error", buf |-> d.tail,
                  drained |-> d.head, msg_buf |-> msg_buf]

---------------------------------------------------------------------------
(* encode *)

\* `buf.len() as u16`
as_u16(n) == n % U16

\* Vec::insert(0, 0), once per byte of the length.
insert_front(buf) == <<0, 0>> \o buf

\* Mutant of write_u16: the length written low byte first.
write_u16_le(buf, len) ==
    [buf EXCEPT ![1] = len % 256, ![2] = len \div 256]

\* Cursor at position 0, write_u16::<BigEndian>(len): overwrites the first
\* two bytes.
write_u16(buf, len) ==
    [buf EXCEPT ![1] = len \div 256, ![2] = len % 256]

\* LengthPrefixedJson::encode as a function of the message and the buffer:
\* the value returned (kind) and the buffer afterwards (buf).
encode(msg, buf) ==
    LET written == to_writer(buf, msg) IN
    IF ~msg.ok THEN [kind |-> "error", buf |-> written]
    ELSE
      LET len == as_u16(Len(written)) IN
      [kind |-> "ok", buf |-> write_u16(insert_front(written), len)]

---------------------------------------------------------------------------
(* The messages handed to encode. *)

\* Small serialized payloads.
SmallPayloads == SeqsUpTo(TextBytes, MaxPayloadLen) \ {<<>>}

\* Payload lengths at the limits of the header: the first that needs its
\* high byte, the last it can hold, and the first it cannot.
WideLens == {256, U16 - 1, U16}

\* A message is the outcome of its serialization: the bytes written, and
\* whether the serializer succeeded.
SmallMsgs ==
    {[bytes |-> p, ok |-> TRUE] : p \in SmallPayloads}
    \cup {[bytes |-> p, ok |-> FALSE] : p \in {<<>>, <<1>>}}

---------------------------------------------------------------------------
(* State machine. *)

Res(op, kind) ==
    [op |-> op, kind |-> kind, again |-> tries, split |-> partial]

Init ==
    /\ rbuf = <<>>
    /\ wbuf = <<>>
    /\ res = [op |-> "none", kind |-> "none", again |-> 0, split |-> FALSE]
    /\ pre = <<>>
    /\ arg = <<>>
    /\ appended = <<>>
    /\ consumed = <<>>
    /\ out = <<>>
    /\ tries = 0
    /\ partial = FALSE
    /\ run = 0
    /\ fed = 0

\* The transport loop reads a chunk from the peer into the decode buffer.
Receive(chunk) ==
    /\ Len(appended) + Len(chunk) <= MaxStream
    /\ rbuf' = rbuf \o chunk
    /\ appended' = appended \o chunk
    /\ res' = Res("receive", "none")
    /\ pre' = rbuf
    /\ arg' = chunk
    /\ tries' = 0
    /\ run' = 0
    /\ fed' = Len(rbuf) + Len(chunk)
    /\ UNCHANGED <<wbuf, consumed, out, partial>>

\* The transport loop writes the output buffer to a peer running the same
\* codec, whose decode buffer receives the bytes.
Flush ==
    /\ wbuf # <<>>
    /\ Len(appended) <= MaxStream
    /\ rbuf' = rbuf \o wbuf
    /\ appended' = appended \o wbuf
    /\ wbuf' = <<>>
    /\ res' = Res("flush", "none")
    /\ pre' = rbuf
    /\ arg' = <<>>
    /\ tries' = 0
    /\ run' = 0
    /\ fed' = Len(rbuf) + Len(wbuf)
    /\ UNCHANGED <<consumed, out, partial>>

\* One call of decode on the decode buffer.
Decode ==
    LET r == decode(rbuf) IN
    /\ rbuf' = r.buf
    /\ res' = Res("decode", r.kind)
    /\ pre' = rbuf
    /\ arg' = <<>>
    /\ consumed' = consumed \o r.drained
    /\ out' = IF r.kind = "incomplete" THEN out
              ELSE Append(out, [kind |-> r.kind, msg_buf |-> r.msg_buf])
    /\ tries' = IF r.kind # "incomplete" THEN 0
                ELSE IF tries < MaxTries THEN tries + 1
                ELSE tries
    /\ partial' = (r.kind = "incomplete" /\ (partial \/ rbuf # <<>>))
    /\ run' = IF r.kind = "incomplete" THEN run ELSE run + 1
    /\ UNCHANGED <<wbuf, appended, fed>>

EncodeStep(msg) ==
    LET r == encode(msg, wbuf) IN
    /\ wbuf' = r.buf
    /\ res' = Res("encode", r.kind)
    /\ pre' = wbuf
    /\ arg' = msg.bytes
    /\ UNCHANGED <<rbuf, appended, consumed, out, tries, partial, run, fed>>

\* One call of encode with a small message.
Encode ==
    /\ Len(wbuf) <= MaxOut
    /\ Len(appended) <= MaxStream
    /\ \E msg \in SmallMsgs : EncodeStep(msg)

\* One call of encode with a payload at the limit of the header, into an
\* empty output buffer on a connection that has carried nothing yet.
EncodeWide ==
    /\ wbuf = <<>>
    /\ appended = <<>>
    /\ \E n \in WideLens : EncodeStep([bytes |-> Fill(n), ok |-> TRUE])

\* What one read delivers: any short chunk of the bytes above, or the
\* header of a frame two bytes short of the longest.
Chunks ==
    (SeqsUpTo(NetBytes, MaxChunk) \ {<<>>}) \cup {<<InvalidByte, 254>>}

\* The receiving end: a peer that may send anything feeds the decode buffer.
NextRecv ==
    \/ \E chunk \in Chunks : Receive(chunk)
    \/ Decode

SpecRecv == Init /\ [][NextRecv]_vars

\* Both ends: what encode wrote is delivered to the peer's decode buffer.
NextSend ==
    \/ Encode
    \/ EncodeWide
    \/ Flush
    \/ Decode

SpecSend == Init /\ [][NextSend]_vars

---------------------------------------------------------------------------
(* The wire format, stated on bytes: a 2-byte big-endian length, then that *)
(* many payload bytes.                                                     *)

Header(n) == <<n \div 256, n % 256>>

HeaderValue(b) == 256 * b[1] + b[2]

\* The buffer holds a whole frame at its front.
Complete(b) == Len(b) >= 2 /\ Len(b) >= 2 + HeaderValue(b)

FramePayload(b) == SubSeq(b, 3, 2 + HeaderValue(b))

FrameRest(b) == SubSeq(b, 3 + HeaderValue(b), Len(b))

\* What the last decode call that drained a frame returned.
Returned == out[Len(out)]

\* A message whose serialization succeeds with the bytes p.
Msg(p) == [bytes |-> p, ok |-> TRUE]

---------------------------------------------------------------------------
(* Claims about encode, checked under SpecSend. *)

\* C1 (round trip): whenever decode is called on a buffer holding exactly
\* the bytes encode produced for a payload of at most 65,535 bytes in an
\* empty output buffer, it returns that payload and leaves the buffer empty.
\* The payloads are the serializer's, which never writes an empty text.
RoundTripOf(p) ==
    pre = encode(Msg(p), <<>>).buf
    => /\ res.kind = "payload"
       /\ Returned.kind = "payload"
       /\ Returned.msg_buf = p
       /\ rbuf = <<>>

RoundTrip ==
    res.op = "decode"
    => /\ \A p \in SmallPayloads :
             Len(pre) = hdr_size + Len(p) => RoundTripOf(p)
       /\ \A n \in {256, U16 - 1} :
             Len(pre) = hdr_size + n => RoundTripOf(Fill(n))

\* A payload of 65,535 bytes has made the round trip.
RoundTripWitness ==
    /\ res.op = "decode"
    /\ res.kind = "payload"
    /\ Len(Returned.msg_buf) = U16 - 1
    /\ Returned.msg_buf = Fill(U16 - 1)
    /\ pre = encode(Msg(Fill(U16 - 1)), <<>>).buf
    /\ rbuf = <<>>

\* C2 (length boundary): an encode whose serializer succeeded returns ok
\* when the payload has at most 65,535 bytes, and fails with
\* PayloadTooLarge, the output buffer untouched, when it has more; a header
\* it writes holds the payload's length.
LengthBoundary ==
    (res.op = "encode" /\ res.kind # "error")
    => /\ Len(arg) <= U16 - 1 => res.kind = "ok"
       /\ Len(arg) >= U16 => (res.kind = "PayloadTooLarge" /\ wbuf = pre)
       /\ (res.kind = "ok" /\ pre = <<>>) => HeaderValue(wbuf) = Len(arg)

\* C3 (encode keeps the buffer): after encode the output buffer still
\* starts with the bytes it held before the call.
EncodeKeepsPrefix ==
    res.op = "encode" => IsPrefix(pre, wbuf)

\* C4 (wire format): what a successful encode of a payload of n <= 65,535
\* bytes adds to the output buffer is the big-endian header of n followed
\* by the payload, whatever the buffer held before.
EncodeWireFormat ==
    (res.op = "encode" /\ res.kind = "ok" /\ Len(arg) <= U16 - 1)
    => /\ Len(wbuf) = Len(pre) + hdr_size + Len(arg)
       /\ Drop(wbuf, Len(pre)) = Header(Len(arg)) \o arg

---------------------------------------------------------------------------
(* Claims about decode, checked under SpecRecv. *)

\* C5 (incomplete is a no-op): a decode call on a buffer that holds fewer
\* than 2 bytes, or fewer than 2 + header value bytes, returns "incomplete"
\* and leaves the buffer as it was; so does every decode call repeated on a
\* buffer that has not changed since the call before it.
IncompleteNoOp ==
    res.op = "decode"
    => /\ ~Complete(pre) => (res.kind = "incomplete" /\ rbuf = pre)
       /\ res.again > 0 => (res.kind = "incomplete" /\ rbuf = pre)

\* Decode has been repeated on a buffer holding a header and part of the
\* payload it announces.
IncompleteNoOpWitness ==
    /\ res.op = "decode"
    /\ res.kind = "incomplete"
    /\ res.again >= 2
    /\ Len(rbuf) > hdr_size
    /\ ~Complete(rbuf)

\* C6 (no over-consumption): a decode call on a buffer that holds at least
\* 2 + header value bytes removes exactly those bytes from the front, takes
\* the bytes that followed the header as the payload (the message returned,
\* unless the deserializer rejects them) and leaves the bytes beyond the
\* frame as they were.
NoOverConsumption ==
    (res.op = "decode" /\ Complete(pre))
    => /\ res.kind # "incomplete"
       /\ Len(pre) - Len(rbuf) = 2 + HeaderValue(pre)
       /\ rbuf = FrameRest(pre)
       /\ Returned.msg_buf = FramePayload(pre)
       /\ Returned.kind = res.kind
       /\ from_slice(FramePayload(pre)) => res.kind = "payload"

\* Frame F1 was returned from a buffer that held F1 and the header and
\* part of the payload of F2.
NoOverConsumptionWitness ==
    /\ res.op = "decode"
    /\ res.kind = "payload"
    /\ Len(rbuf) > hdr_size
    /\ ~Complete(rbuf)
    /\ pre = Header(Len(Returned.msg_buf)) \o Returned.msg_buf \o rbuf

\* The bytes delivered so far from the start of the frame that was at the
\* front of the buffer when the last decode call was made.
FedSoFar == Drop(appended, Len(consumed) - (Len(pre) - Len(rbuf)))

\* C7 (incremental feed): however the bytes are split into chunks, a decode
\* call made before the last byte of the frame at the front has arrived
\* returns "incomplete", and one made after it has arrived returns what
\* decode returns, and leaves what decode leaves, on the same bytes
\* delivered in one piece.
IncrementalFeed ==
    res.op = "decode"
    => IF ~Complete(FedSoFar)
       THEN res.kind = "incomplete" /\ rbuf = pre
       ELSE LET d == decode(FedSoFar) IN
            /\ res.kind # "incomplete"
            /\ res.kind = d.kind
            /\ Returned.msg_buf = d.msg_buf
            /\ Returned.msg_buf = FramePayload(FedSoFar)
            /\ rbuf = d.buf

\* A two-byte payload was returned after an earlier call had found its
\* frame incomplete.
IncrementalFeedWitness ==
    /\ res.op = "decode"
    /\ res.kind = "payload"
    /\ res.split
    /\ Len(Returned.msg_buf) = 2
    /\ rbuf = <<>>

\* The payloads of the whole frames at the front of a byte stream, in order.
RECURSIVE FramesOf(_)
FramesOf(s) ==
    IF Complete(s) THEN <<FramePayload(s)>> \o FramesOf(FrameRest(s))
    ELSE <<>>

\* What follows the whole frames at the front of a byte stream.
RECURSIVE TailOf(_)
TailOf(s) == IF Complete(s) THEN TailOf(FrameRest(s)) ELSE s

\* C8 (pipelining): the decode calls that drain a frame return the payloads
\* of the frames of the stream in wire order, each once; decode returns
\* "incomplete" only when every whole frame delivered has been returned,
\* and on an empty buffer when the stream is k whole frames.  The buffer
\* [0,1,5,0,2,6,7] yields [5], then [6,7], then "incomplete".
Pipelining ==
    LET frames == FramesOf(appended)
        d1 == decode(<<0, 1, 5, 0, 2, 6, 7>>)
        d2 == decode(d1.buf)
        d3 == decode(d2.buf)
    IN  /\ Len(out) <= Len(frames)
        /\ \A i \in 1..Len(out) :
              /\ out[i].msg_buf = frames[i]
              /\ out[i].kind = IF from_slice(frames[i]) THEN "payload"
                               ELSE "error"
        /\ (res.op = "decode" /\ res.kind = "incomplete")
           => /\ Len(out) = Len(frames)
              /\ rbuf = TailOf(appended)
        /\ (res.op = "decode" /\ pre = <<>>)
           => (res.kind = "incomplete" /\ rbuf = <<>>)
        /\ d1.kind = "payload" /\ d1.msg_buf = <<5>> /\ d1.buf = <<0, 2, 6, 7>>
        /\ d2.kind = "payload" /\ d2.msg_buf = <<6, 7>> /\ d2.buf = <<>>
        /\ d3.kind = "incomplete"

\* Two frames delivered before the first of three successive decode calls:
\* two different payloads returned, then "incomplete" on the empty buffer.
PipeliningWitness ==
    /\ res.op = "decode"
    /\ res.kind = "incomplete"
    /\ rbuf = <<>>
    /\ run = 2
    /\ Len(out) = 2
    /\ out[1].kind = "payload"
    /\ out[2].kind = "payload"
    /\ out[1].msg_buf # out[2].msg_buf

\* C9 (error classification): decode returns an error only from a buffer
\* that held a whole frame whose payload the deserializer rejects; a buffer
\* without a whole frame gives "incomplete", never an error, and a buffer
\* with one never gives "incomplete".
ErrorClassification ==
    res.op = "decode"
    => /\ res.kind \in {"incomplete", "payload", "error"}
       /\ res.kind = "error"
          => (Complete(pre) /\ ~from_slice(FramePayload(pre)))
       /\ ~Complete(pre) => res.kind = "incomplete"
       /\ Complete(pre) => res.kind # "incomplete"

\* A whole frame with a non-empty payload was rejected by the deserializer.
ErrorClassificationWitness ==
    /\ res.op = "decode"
    /\ res.kind = "error"
    /\ Complete(pre)
    /\ Returned.msg_buf # <<>>
    /\ ~from_slice(Returned.msg_buf)

\* C11 (header arithmetic does not wrap): decode reads the first two bytes
\* b0, b1 as 256 * b0 + b1 and drains a frame exactly when 2 + that value
\* bytes are buffered, the sum not reduced to 16 bits; a buffer of fewer
\* than 65,536 bytes that starts with header 0xFFFE or 0xFFFF is left as it
\* was, and fewer than 2 bytes are incomplete whatever they are.
HeaderNoWrap ==
    res.op = "decode"
    => IF Len(pre) < 2
       THEN res.kind = "incomplete" /\ rbuf = pre
       ELSE LET need == 2 + (256 * pre[1] + pre[2]) IN
            /\ res.kind # "incomplete" <=> Len(pre) >= need
            /\ res.kind # "incomplete" => Len(pre) - Len(rbuf) = need
            /\ (pre[1] = 255 /\ pre[2] \in {254, 255} /\ Len(pre) < U16)
               => (res.kind = "incomplete" /\ rbuf = pre)

\* Decode was called on a buffer that starts with header 0xFFFE and holds
\* bytes after it.
HeaderNoWrapWitness ==
    /\ res.op = "decode"
    /\ Len(pre) > 2
    /\ pre[1] = 255
    /\ pre[2] = 254
    /\ res.kind = "incomplete"
    /\ rbuf = pre

\* The positions in the log of drained frames at which an error was
\* returned, and those at which the frame of the stream is one the
\* deserializer rejects.
ErrorsReported == {i \in 1..Len(out) : out[i].kind = "error"}

MalformedFrames ==
    LET frames == FramesOf(appended) IN
    {i \in 1..Len(out) : i <= Len(frames) /\ ~from_slice(frames[i])}

\* C12 (malformed frames are skipped): a decode call that returns an error
\* has removed exactly the rejected frame from the front of the buffer and
\* left the bytes after it as they were, so the next call starts at the
\* next frame; the i-th frame drained is reported as an error exactly when
\* the i-th frame of the stream is malformed, hence each one once.
MalformedSkipped ==
    /\ (res.op = "decode" /\ res.kind = "error")
       => /\ Complete(pre)
          /\ Len(pre) - Len(rbuf) = 2 + HeaderValue(pre)
          /\ rbuf = FrameRest(pre)
          /\ Returned.kind = "error"
          /\ Returned.msg_buf = FramePayload(pre)
    /\ ErrorsReported = MalformedFrames
    /\ Len(consumed) + Len(rbuf) = Len(appended)

\* A malformed frame was reported once, and the very next decode call
\* returned the payload of the frame that followed it in the buffer.
MalformedSkippedWitness ==
    /\ res.op = "decode"
    /\ res.kind = "payload"
    /\ run >= 2
    /\ Len(out) = 2
    /\ out[1].kind = "error"
    /\ out[1].msg_buf # <<>>
    /\ out[2].kind = "payload"

\* C13 (stream conservation): the bytes decode has drained so far followed
\* by the buffer are the bytes delivered so far, in order; a decode call
\* leaves a suffix of the buffer it was given, and a delivery only appends.
StreamConservation ==
    /\ consumed \o rbuf = appended
    /\ res.op = "decode"
       => /\ Len(rbuf) <= Len(pre)
          /\ rbuf = Drop(pre, Len(pre) - Len(rbuf))
    /\ res.op \in {"receive", "flush"} => IsPrefix(pre, rbuf)

\* Bytes were delivered after two frames had been drained, and part of the
\* stream is still buffered.
StreamConservationWitness ==
    /\ res.op = "receive"
    /\ Len(out) >= 2
    /\ pre # <<>>
    /\ Len(rbuf) > Len(pre)
    /\ Len(consumed) >= 4

\* C14 (decode progress): a decode call that returns a payload or an error
\* shortens the buffer by at least 2 bytes, so the calls made since the
\* last delivery have returned at most floor(len / 2) such results, len the
\* length of the buffer after that delivery.
DecodeProgress ==
    /\ (res.op = "decode" /\ res.kind # "incomplete")
       => Len(pre) - Len(rbuf) >= 2
    /\ 2 * run + Len(rbuf) <= fed
    /\ run <= fed \div 2

\* A buffer of six bytes gave three results and then "incomplete": the
\* bound is attained.
DecodeProgressWitness ==
    /\ res.op = "decode"
    /\ res.kind = "incomplete"
    /\ fed = 6
    /\ run = 3
    /\ rbuf = <<>>

\* C15 (zero-length frame): a decode call on a buffer that starts with
\* header 0x0000 does not return "incomplete"; it drains exactly the two
\* header bytes, hands the empty slice to the deserializer and leaves the
\* bytes after the header as they were.
ZeroLengthFrame ==
    (res.op = "decode" /\ Len(pre) >= 2 /\ pre[1] = 0 /\ pre[2] = 0)
    => /\ res.kind # "incomplete"
       /\ Len(rbuf) = Len(pre) - 2
       /\ rbuf = Drop(pre, 2)
       /\ Returned.msg_buf = <<>>
       /\ Returned.kind = res.kind

\* A zero-length frame was drained from a buffer that held the start of
\* another frame after it.
ZeroLengthFrameWitness ==
    /\ res.op = "decode"
    /\ Len(pre) > 2
    /\ pre[1] = 0
    /\ pre[2] = 0
    /\ res.kind # "incomplete"
    /\ rbuf # <<>>
    /\ pre = <<0, 0>> \o rbuf
    /\ Returned.msg_buf = <<>>

====
